---- MODULE Spec2Model ----
(***************************************************************************)
(* Prescription text extraction of the NutriScan / Health Analyzer server. *)
(*                                                                         *)
(* Two revisions of the /analyze-prescription pipeline are kept in the     *)
(* repository and both are modelled:                                       *)
(*   "server"    src/server.js          (extractMedicines, createWorker)   *)
(*   "optimized" src/unnamed/part_003   (detectMedicines, direct recognize)*)
(*                                                                         *)
(* A JavaScript string is a sequence of one-character strings, so that     *)
(* toLowerCase, includes, trim, split and the regular expressions are      *)
(* computed character by character.                                        *)
(***************************************************************************)
EXTENDS Integers, Sequences, FiniteSets, TLC

VARIABLES
    revision,       \* which revision of the server is running
    phase,          \* the pipeline applied alone: "input", "extracted"
    rawText,        \* its raw text
    result,         \* its result
    pc,             \* per request: where its handler is suspended
    worker,         \* per request: the handler's local `worker`, 0 for undefined
    workers,        \* the OCR workers created so far, by id
    extractedText,  \* per request: the handler's local `extractedText`
    responses,      \* per request: the responses sent, in order
    file,           \* per request: req.file, "pending" until the request arrives
    ocr             \* per request: how the OCR calls of the handler ended

pipelineVars == <<phase, rawText, result>>

handlerVars == <<pc, worker, workers, extractedText, responses, file, ocr>>

vars ==
    <<revision, phase, rawText, result, pc, worker, workers, extractedText, responses,
      file, ocr>>

\* ------------------------------------------------------------------------
\* Bounds of the model
\* ------------------------------------------------------------------------

\* longest raw text, in vocabulary tokens
MaxTokens == 4

\* requests handled concurrently
NumRequests == 2

Requests == 1..NumRequests

\* ------------------------------------------------------------------------
\* JavaScript string primitives
\* ------------------------------------------------------------------------

Digits == {"0", "1", "2", "3", "4", "5", "6", "7", "8", "9"}

\* characters matched by \s and removed by String.prototype.trim
WhiteSpace == {" ", "\t", "\n", "\r", "\f"}

\* characters the regular-expression dot does not match
LineTerminators == {"\n", "\r"}

UpperCase == <<"A", "B", "C", "D", "E", "F", "G", "H", "I", "J", "K", "L", "M",
               "N", "O", "P", "Q", "R", "S", "T", "U", "V", "W", "X", "Y", "Z">>

LowerCase == <<"a", "b", "c", "d", "e", "f", "g", "h", "i", "j", "k", "l", "m",
               "n", "o", "p", "q", "r", "s", "t", "u", "v", "w", "x", "y", "z">>

LowerOf ==
    [c \in {UpperCase[k] : k \in DOMAIN UpperCase} |->
        LowerCase[CHOOSE k \in DOMAIN UpperCase : UpperCase[k] = c]]

LowerChar(c) == IF c \in DOMAIN LowerOf THEN LowerOf[c] ELSE c

toLowerCase(s) == [k \in DOMAIN s |-> LowerChar(s[k])]

includes(s, sub) ==
    \E k \in 0..(Len(s) - Len(sub)) : SubSeq(s, k + 1, k + Len(sub)) = sub

trim(s) ==
    LET keep == {k \in DOMAIN s : s[k] \notin WhiteSpace}
    IN  IF keep = {} THEN <<>>
        ELSE LET lo == CHOOSE k \in keep : \A m \in keep : k <= m
                 hi == CHOOSE k \in keep : \A m \in keep : m <= k
             IN  SubSeq(s, lo, hi)

RECURSIVE splitFrom(_, _)
\* the segments of s from position start on, cut at every "\n"
splitFrom(s, start) ==
    LET nl == {k \in start..Len(s) : s[k] = "\n"}
    IN  IF nl = {} THEN <<SubSeq(s, start, Len(s))>>
        ELSE LET first == CHOOSE k \in nl : \A m \in nl : k <= m
             IN  <<SubSeq(s, start, first - 1)>> \o splitFrom(s, first + 1)

split(s) == splitFrom(s, 1)

\* ------------------------------------------------------------------------
\* Regular expressions  \d+ SEP? (UNIT1|UNIT2)  with the i flag
\* ------------------------------------------------------------------------

RECURSIVE digitRunEnd(_, _)
\* last index of the greedy \d+ that starts at index i (s[i] is a digit)
digitRunEnd(s, i) ==
    IF i + 1 <= Len(s) /\ s[i + 1] \in Digits THEN digitRunEnd(s, i + 1) ELSE i

\* index at which unit u ends when it starts at index i, 0 when it does not
unitEnd(s, i, units) ==
    LET hit == {u \in units : /\ i + Len(u) - 1 <= Len(s)
                              /\ toLowerCase(SubSeq(s, i, i + Len(u) - 1)) = u}
    IN  IF hit = {} THEN 0
        ELSE LET u == CHOOSE u \in hit : TRUE IN i + Len(u) - 1

\* end index of the match attempted at start index i, 0 when it fails
matchAt(s, i, seps, units) ==
    IF s[i] \notin Digits THEN 0
    ELSE LET e == digitRunEnd(s, i)
             withSep == IF e + 1 <= Len(s) /\ s[e + 1] \in seps
                        THEN unitEnd(s, e + 2, units) ELSE 0
         IN  IF withSep # 0 THEN withSep ELSE unitEnd(s, e + 1, units)

\* <<start, end>> of the leftmost match, <<0, 0>> when there is none
firstMatch(s, seps, units) ==
    LET starts == {i \in DOMAIN s : matchAt(s, i, seps, units) # 0}
    IN  IF starts = {} THEN <<0, 0>>
        ELSE LET i == CHOOSE i \in starts : \A m \in starts : i <= m
             IN  <<i, matchAt(s, i, seps, units)>>

DoseUnits == {<<"m", "g">>, <<"m", "l">>}

DurationUnits == {<<"d", "a", "y", "s">>, <<"w", "e", "e", "k", "s">>}

\* ------------------------------------------------------------------------
\* String literals of the responses
\* ------------------------------------------------------------------------

NotSpecified == <<"N", "o", "t", " ", "s", "p", "e", "c", "i", "f", "i", "e", "d">>

AsPrescribed == <<"A", "s", " ", "p", "r", "e", "s", "c", "r", "i", "b", "e", "d">>

TwiceDaily == <<"T", "w", "i", "c", "e", " ", "D", "a", "i", "l", "y">>

ThreeTimesDaily == <<"T", "h", "r", "e", "e", " ", "T", "i", "m", "e", "s", " ",
                     "D", "a", "i", "l", "y">>

OnceDaily == <<"O", "n", "c", "e", " ", "D", "a", "i", "l", "y">>

FollowDoctor == <<"F", "o", "l", "l", "o", "w", " ", "d", "o", "c", "t", "o", "r", " ",
                  "i", "n", "s", "t", "r", "u", "c", "t", "i", "o", "n", "s">>

DoctorNotDetected == <<"D", "o", "c", "t", "o", "r", " ", "n", "a", "m", "e", " ",
                       "n", "o", "t", " ", "d", "e", "t", "e", "c", "t", "e", "d">>

NoClearMedicines == <<"N", "o", " ", "c", "l", "e", "a", "r", " ", "m", "e", "d", "i",
                      "c", "i", "n", "e", "s", " ", "d", "e", "t", "e", "c", "t", "e", "d">>

Placeholder == [name |-> NoClearMedicines]

\* keywords, as the code spells them
kw_mg == <<"m", "g">>
kw_ml == <<"m", "l">>
kw_tab == <<"t", "a", "b">>
kw_tablet == <<"t", "a", "b", "l", "e", "t">>
kw_cap == <<"c", "a", "p">>
kw_capsule == <<"c", "a", "p", "s", "u", "l", "e">>
kw_syrup == <<"s", "y", "r", "u", "p">>
kw_bd == <<"b", "d">>
kw_td == <<"t", "d">>
kw_tds == <<"t", "d", "s">>
kw_qd == <<"q", "d">>
kw_od == <<"o", "d">>
kw_twice == <<"t", "w", "i", "c", "e">>
kw_thrice == <<"t", "h", "r", "i", "c", "e">>
kw_once == <<"o", "n", "c", "e">>
kw_dr == <<"d", "r">>

\* ------------------------------------------------------------------------
\* src/server.js helpers
\* ------------------------------------------------------------------------

\* mutant: the rightmost match instead of the leftmost
extractDosage_Last(text) ==
    LET starts == {i \in DOMAIN text : matchAt(text, i, {" "}, DoseUnits) # 0}
    IN  IF starts = {} THEN NotSpecified
        ELSE LET i == CHOOSE i \in starts : \A m \in starts : m <= i
             IN  SubSeq(text, i, matchAt(text, i, {" "}, DoseUnits))

\* text.match(/(\d+ ?mg|\d+ ?ml)/i)
extractDosage(text) ==
    LET m == firstMatch(text, {" "}, DoseUnits)
    IN  IF m[1] # 0 THEN SubSeq(text, m[1], m[2]) ELSE NotSpecified

\* mutant: od tested before bd
detectTiming_OdFirst(text) ==
    LET lower == toLowerCase(text)
    IN  IF includes(lower, kw_od) \/ includes(lower, kw_once) THEN OnceDaily
        ELSE IF includes(lower, kw_bd) \/ includes(lower, kw_twice) THEN TwiceDaily
        ELSE IF includes(lower, kw_tds) \/ includes(lower, kw_thrice) THEN ThreeTimesDaily
        ELSE FollowDoctor

detectTiming(text) ==
    LET lower == toLowerCase(text)
    IN  IF includes(lower, kw_bd) \/ includes(lower, kw_twice) THEN TwiceDaily
        ELSE IF includes(lower, kw_tds) \/ includes(lower, kw_thrice) THEN ThreeTimesDaily
        ELSE IF includes(lower, kw_od) \/ includes(lower, kw_once) THEN OnceDaily
        ELSE FollowDoctor

\* mutant: weeks forgotten
detectDuration_DaysOnly(text) ==
    LET m == firstMatch(text, {" "}, {<<"d", "a", "y", "s">>})
    IN  IF m[1] # 0 THEN SubSeq(text, m[1], m[2]) ELSE AsPrescribed

\* text.match(/(\d+ ?days|\d+ ?weeks)/i)
detectDuration(text) ==
    LET m == firstMatch(text, {" "}, DurationUnits)
    IN  IF m[1] # 0 THEN SubSeq(text, m[1], m[2]) ELSE AsPrescribed

\* mutant: syrup forgotten
isMedicineLine_NoSyrup(line) ==
    LET lower == toLowerCase(line)
    IN  \/ includes(lower, kw_mg)
        \/ includes(lower, kw_tablet)
        \/ includes(lower, kw_tab)
        \/ includes(lower, kw_capsule)
        \/ includes(lower, kw_ml)

\* the condition of the if inside extractMedicines' forEach
isMedicineLine(line) ==
    LET lower == toLowerCase(line)
    IN  \/ includes(lower, kw_mg)
        \/ includes(lower, kw_tablet)
        \/ includes(lower, kw_tab)
        \/ includes(lower, kw_capsule)
        \/ includes(lower, kw_syrup)
        \/ includes(lower, kw_ml)

\* the object pushed by extractMedicines
medicineEntry(line) ==
    [name     |-> trim(line),
     dosage   |-> extractDosage(line),
     timing   |-> detectTiming(line),
     duration |-> detectDuration(line)]

\* mutant: one medicines array at module level, shared by all requests
emptyMedicines_Shared ==
    LET sent == {r \in Requests : /\ responses[r] # <<>>
                                  /\ responses[r][1].status = 200
                                  /\ DOMAIN responses[r][1].body.medicines[1] # {"name"}}
    IN  IF sent = {} THEN <<>>
        ELSE responses[CHOOSE r \in sent : TRUE][1].body.medicines

\* const medicines = []
emptyMedicines == <<>>

RECURSIVE forEachLine_Dedup(_, _, _)
\* mutant: an entry equal to an earlier one is not pushed again
forEachLine_Dedup(lines, k, acc) ==
    IF k > Len(lines) THEN acc
    ELSE forEachLine_Dedup(lines, k + 1,
                           IF /\ isMedicineLine(lines[k])
                              /\ \A n \in DOMAIN acc : acc[n] # medicineEntry(lines[k])
                           THEN Append(acc, medicineEntry(lines[k]))
                           ELSE acc)

RECURSIVE forEachLine(_, _, _)
\* lines.forEach(...) of extractMedicines from index k on, medicines so far in acc
forEachLine(lines, k, acc) ==
    IF k > Len(lines) THEN acc
    ELSE forEachLine(lines, k + 1,
                     IF isMedicineLine(lines[k])
                     THEN Append(acc, medicineEntry(lines[k]))
                     ELSE acc)

extractMedicines(text) == forEachLine(split(text), 1, emptyMedicines)

RECURSIVE doctorScan_NoTrim(_, _)
\* mutant: the matching line returned as it is
doctorScan_NoTrim(lines, k) ==
    IF k > Len(lines) THEN DoctorNotDetected
    ELSE IF includes(toLowerCase(lines[k]), kw_dr) THEN lines[k]
    ELSE doctorScan_NoTrim(lines, k + 1)

RECURSIVE doctorScan(_, _)
\* the for..of loop of extractDoctorName from index k on
doctorScan(lines, k) ==
    IF k > Len(lines) THEN DoctorNotDetected
    ELSE IF includes(toLowerCase(lines[k]), kw_dr) THEN trim(lines[k])
    ELSE doctorScan(lines, k + 1)

\* mutant: no fallback, the first line when none matches
extractDoctorName_NoFallback(text) ==
    LET found == doctorScan(split(text), 1)
    IN  IF found = DoctorNotDetected THEN trim(split(text)[1]) ELSE found

extractDoctorName(text) == doctorScan(split(text), 1)

\* mutant: the medicines array sent as it is, empty or not
responseBody_NoPlaceholder(text) ==
    [rawText   |-> text,
     medicines |-> extractMedicines(text),
     doctor    |-> extractDoctorName(text)]

\* mutant: the raw text sent trimmed
responseBody_TrimmedRaw(text) ==
    LET medicines == extractMedicines(text)
    IN  [rawText   |-> trim(text),
         medicines |-> IF Len(medicines) > 0 THEN medicines ELSE <<Placeholder>>,
         doctor    |-> extractDoctorName(text)]

\* the object passed to res.json
responseBody(text) ==
    LET medicines == extractMedicines(text)
    IN  [rawText   |-> text,
         medicines |-> IF Len(medicines) > 0 THEN medicines ELSE <<Placeholder>>,
         doctor    |-> extractDoctorName(text)]

\* ------------------------------------------------------------------------
\* src/unnamed/part_003 helpers (the "optimized" revision)
\* ------------------------------------------------------------------------

\* text.match(/(\d+\s?(mg|ml))/i)
extractDosageOpt(text) ==
    LET m == firstMatch(text, WhiteSpace, DoseUnits)
    IN  IF m[1] # 0 THEN SubSeq(text, m[1], m[2]) ELSE NotSpecified

extractTiming(text) ==
    LET lower == toLowerCase(text)
    IN  IF includes(lower, kw_bd) THEN TwiceDaily
        ELSE IF includes(lower, kw_td) THEN ThreeTimesDaily
        ELSE IF includes(lower, kw_qd) \/ includes(lower, kw_od) THEN OnceDaily
        ELSE FollowDoctor

RECURSIVE dotStarEnd(_, _)
\* last index consumed by a greedy .* that starts after index e
dotStarEnd(s, e) ==
    IF e + 1 <= Len(s) /\ s[e + 1] \notin LineTerminators
    THEN dotStarEnd(s, e + 1) ELSE e

\* mutant: the pattern without its .* tail
extractMedicineName_TokenOnly(text) ==
    LET m == firstMatch(text, WhiteSpace, DoseUnits)
    IN  IF m[1] = 0 THEN trim(text)
        ELSE trim(SubSeq(text, 1, m[1] - 1) \o SubSeq(text, m[2] + 1, Len(text)))

\* text.replace(/(\d+\s?(mg|ml).*)/i, "").trim()
extractMedicineName(text) ==
    LET m == firstMatch(text, WhiteSpace, DoseUnits)
    IN  IF m[1] = 0 THEN trim(text)
        ELSE trim(SubSeq(text, 1, m[1] - 1)
                  \o SubSeq(text, dotStarEnd(text, m[2]) + 1, Len(text)))

\* isMedicine of detectMedicines, on the trimmed line
isMedicine(clean) ==
    LET lower == toLowerCase(clean)
    IN  /\ \E k \in DOMAIN clean : clean[k] \in Digits
        /\ \/ includes(lower, kw_mg)
           \/ includes(lower, kw_ml)
           \/ includes(lower, kw_tab)
           \/ includes(lower, kw_cap)
           \/ includes(lower, kw_bd)
           \/ includes(lower, kw_td)
           \/ includes(lower, kw_qd)
           \/ includes(lower, kw_od)

\* the object pushed by detectMedicines
medicineEntryOpt(clean) ==
    [name     |-> extractMedicineName(clean),
     dosage   |-> extractDosageOpt(clean),
     timing   |-> extractTiming(clean),
     duration |-> AsPrescribed]

RECURSIVE forEachLineOpt(_, _, _)
\* lines.forEach(...) of detectMedicines from index k on, medicines so far in acc
forEachLineOpt(lines, k, acc) ==
    IF k > Len(lines) THEN acc
    ELSE forEachLineOpt(lines, k + 1,
                        IF isMedicine(trim(lines[k]))
                        THEN Append(acc, medicineEntryOpt(trim(lines[k])))
                        ELSE acc)

detectMedicines(text) == forEachLineOpt(split(text), 1, emptyMedicines)

extractDoctorNameOpt(text) == doctorScan(split(text), 1)

\* the object passed to res.json
responseBodyOpt(text) ==
    LET medicines == detectMedicines(text)
    IN  [rawText   |-> text,
         medicines |-> IF Len(medicines) > 0 THEN medicines ELSE <<Placeholder>>,
         doctor    |-> extractDoctorNameOpt(text)]

\* ------------------------------------------------------------------------
\* Raw texts: every concatenation of at most MaxTokens tokens of one
\* vocabulary
\* ------------------------------------------------------------------------

Revisions == {"server", "optimized"}

Vocabularies ==
    << \* units, keywords, letter case
       { <<"5">>, <<" ">>, <<"m", "g">>, <<"M", "L">>, <<"t", "a", "b">>,
         <<"x">>, <<"\n">> },
       \* separators between number and unit, line terminators
       { <<"5">>, <<" ">>, <<"\t">>, <<"\r">>, <<"m", "g">>, <<"x">>, <<"\n">> },
       \* remaining classifier keywords
       { <<"5">>, <<"c", "a", "p">>, <<"s", "u", "l", "e">>, <<"s", "y", "r", "u", "p">>,
         <<"l", "e", "t">>, <<"t", "a", "b">>, <<"q", "d">> },
       \* timing abbreviations
       { <<"5">>, <<"B", "d">>, <<"t", "d">>, <<"s">>, <<"o", "d">>, <<"q", "d">>,
         <<"\n">> },
       \* timing words
       { <<"5", "m", "g">>, <<"t", "w", "i", "c", "e">>, <<"t", "h", "r", "i", "c", "e">>,
         <<"o", "n", "c", "e">>, <<"t", "d">>, <<"o", "d">>, <<" ">> },
       \* durations
       { <<"5">>, <<"7">>, <<" ">>, <<"\t">>, <<"d", "a", "y", "s">>,
         <<"W", "e", "e", "k", "s">>, <<"m", "g">> },
       \* doctor lines
       { <<"D", "r">>, <<"d">>, <<"r">>, <<" ">>, <<"5", "m", "g">>, <<"x">>,
         <<"\n">> },
       \* whole lines
       { <<"5", "m", "g", "\n">>, <<"x", "\n">>, <<"D", "r", " ", "5", "m", "g", "\n">>,
         <<"t", "a", "b", " ", "7", "m", "l", "\n">>, <<" ">>, <<"o", "d">> } >>

RECURSIVE concat(_)
\* the text made of the tokens, in order
concat(tokens) ==
    IF tokens = <<>> THEN <<>> ELSE Head(tokens) \o concat(Tail(tokens))

\* the token sequences of the raw texts over vocabulary g
tokenSeqs(g) == UNION {[1..n -> Vocabularies[g]] : n \in 0..MaxTokens}

NoResult == [rawText |-> <<>>, medicines |-> <<>>, doctor |-> <<>>]

\* ------------------------------------------------------------------------
\* The extraction pipeline applied to one raw text
\* ------------------------------------------------------------------------

\* no request has arrived
HandlersIdle ==
    /\ pc = [r \in Requests |-> "idle"]
    /\ worker = [r \in Requests |-> 0]
    /\ workers = <<>>
    /\ extractedText = [r \in Requests |-> <<>>]
    /\ responses = [r \in Requests |-> <<>>]
    /\ file = [r \in Requests |-> "pending"]
    /\ ocr = [r \in Requests |-> "none"]

InitExtract ==
    /\ revision \in Revisions
    /\ \E g \in DOMAIN Vocabularies : \E tokens \in tokenSeqs(g) : rawText = concat(tokens)
    /\ phase = "input"
    /\ result = NoResult
    /\ HandlersIdle

\* server.js lines 120-129
ExtractServer ==
    /\ phase = "input"
    /\ revision = "server"
    /\ result' = responseBody(rawText)
    /\ phase' = "extracted"
    /\ UNCHANGED <<revision, rawText>>
    /\ UNCHANGED handlerVars

\* part_003 lines 123-132
ExtractOptimized ==
    /\ phase = "input"
    /\ revision = "optimized"
    /\ result' = responseBodyOpt(rawText)
    /\ phase' = "extracted"
    /\ UNCHANGED <<revision, rawText>>
    /\ UNCHANGED handlerVars

NextExtract == ExtractServer \/ ExtractOptimized

SpecExtract == InitExtract /\ [][NextExtract]_vars

\* ------------------------------------------------------------------------
\* POST /analyze-prescription, several requests in flight
\* ------------------------------------------------------------------------

\* texts the OCR engine returns
OcrTexts ==
    { <<>>,
      <<" ", "\n">>,
      <<"x">>,
      <<"5", "m", "g">>,
      <<" ", "t", "a", "b", "\n">>,
      <<"D", "r", " ", "x", "\n", "t", "a", "b", " ", "5", " ", "M", "L", " ", "b", "d">>,
      <<"7", "m", "l", " ", "o", "d", " ", "3", " ", "d", "a", "y", "s", "\n", "5", "m", "g">> }

ErrorResponse(status, message) == [status |-> status, error |-> message]

OkResponse(body) == [status |-> 200, body |-> body]

send(r, response) == responses' = [responses EXCEPT ![r] = Append(@, response)]

Init ==
    /\ revision \in Revisions
    /\ phase = "handler"
    /\ rawText = <<>>
    /\ result = NoResult
    /\ HandlersIdle

\* mutant: `worker` declared once at module level, so that every handler
\* sees the worker created last
workerOf_Shared(r) == Len(workers)

\* the handler's `worker`
workerOf(r) == worker[r]

\* mutant: the finally block terminates without testing `worker`
afterFinally_Always(r) == IF revision = "server" THEN "terminate" ELSE "done"

\* where the handler goes once it has responded: server.js runs its finally
\* block, which awaits worker.terminate() if (worker)
afterFinally(r) ==
    IF revision = "server" /\ workerOf(r) # 0 THEN "terminate" ELSE "done"

\* the handler runs up to its first await; hasFile is req.file
Start(r, hasFile) ==
    /\ pc[r] = "idle"
    /\ file' = [file EXCEPT ![r] = IF hasFile THEN "present" ELSE "absent"]
    /\ IF ~hasFile
       THEN /\ send(r, ErrorResponse(400, "Prescription image required"))
            /\ pc' = [pc EXCEPT ![r] = afterFinally(r)]
       ELSE /\ pc' = [pc EXCEPT ![r] = IF revision = "server" THEN "createWorker"
                                                              ELSE "recognize"]
            /\ UNCHANGED responses
    /\ UNCHANGED <<revision, pipelineVars, worker, workers, extractedText, ocr>>

\* server.js: await Tesseract.createWorker("eng") resolves and the handler
\* calls worker.recognize on the new worker
CreateWorkerResolved(r) ==
    /\ pc[r] = "createWorker"
    /\ workers' = Append(workers, [createdBy |-> r, usedBy |-> {r}, terminatedBy |-> <<>>])
    /\ worker' = [worker EXCEPT ![r] = Len(workers) + 1]
    /\ pc' = [pc EXCEPT ![r] = "recognize"]
    /\ UNCHANGED <<revision, pipelineVars, extractedText, responses, file, ocr>>

\* server.js: createWorker rejects; catch, then finally
CreateWorkerRejected(r) ==
    /\ pc[r] = "createWorker"
    /\ ocr' = [ocr EXCEPT ![r] = "createWorkerThrew"]
    /\ send(r, ErrorResponse(500, "OCR failed (memory limit or unclear image)"))
    /\ pc' = [pc EXCEPT ![r] = afterFinally(r)]
    /\ UNCHANGED <<revision, pipelineVars, worker, workers, extractedText, file>>

\* mutant: the empty-text test without trim
responseFor_NoTrim(text) ==
    IF revision = "server"
    THEN IF text = <<>>
         THEN ErrorResponse(400, "Could not read prescription text clearly")
         ELSE OkResponse(responseBody(text))
    ELSE IF text = <<>>
         THEN ErrorResponse(400, "No text detected")
         ELSE OkResponse(responseBodyOpt(text))

\* the response of the handler once recognition gave text
responseFor(text) ==
    IF revision = "server"
    THEN IF text = <<>> \/ trim(text) = <<>>
         THEN ErrorResponse(400, "Could not read prescription text clearly")
         ELSE OkResponse(responseBody(text))
    ELSE IF text = <<>>
         THEN ErrorResponse(400, "No text detected")
         ELSE OkResponse(responseBodyOpt(text))

\* recognize resolves with text; the handler runs on to its response and, in
\* server.js, to the await of worker.terminate()
RecognizeResolved(r, text) ==
    /\ pc[r] = "recognize"
    /\ ocr' = [ocr EXCEPT ![r] = "recognized"]
    /\ extractedText' = [extractedText EXCEPT ![r] = text]
    /\ send(r, responseFor(text))
    /\ pc' = [pc EXCEPT ![r] = afterFinally(r)]
    /\ UNCHANGED <<revision, pipelineVars, worker, workers, file>>

\* recognize rejects; catch
RecognizeRejected(r) ==
    /\ pc[r] = "recognize"
    /\ ocr' = [ocr EXCEPT ![r] = "recognizeThrew"]
    /\ send(r, ErrorResponse(500,
                IF revision = "server"
                THEN "OCR failed (memory limit or unclear image)"
                ELSE "Prescription analysis failed. Server may be waking up."))
    /\ pc' = [pc EXCEPT ![r] = afterFinally(r)]
    /\ UNCHANGED <<revision, pipelineVars, worker, workers, extractedText, file>>

\* server.js finally: await worker.terminate() returns
TerminateWorker(r) ==
    /\ pc[r] = "terminate"
    /\ workers' = [workers EXCEPT ![workerOf(r)].terminatedBy = Append(@, r)]
    /\ pc' = [pc EXCEPT ![r] = "done"]
    /\ UNCHANGED <<revision, pipelineVars, worker, extractedText, responses, file, ocr>>

Next ==
    \E r \in Requests :
        \/ \E hasFile \in BOOLEAN : Start(r, hasFile)
        \/ CreateWorkerResolved(r)
        \/ CreateWorkerRejected(r)
        \/ \E text \in OcrTexts : RecognizeResolved(r, text)
        \/ RecognizeRejected(r)
        \/ TerminateWorker(r)

Spec == Init /\ [][Next]_vars

\* an awaited promise of the handler settles: createWorker and recognize
\* resolve or reject, and terminate() returns
Settles(r) ==
    \/ CreateWorkerResolved(r)
    \/ CreateWorkerRejected(r)
    \/ \E text \in OcrTexts : RecognizeResolved(r, text)
    \/ RecognizeRejected(r)
    \/ TerminateWorker(r)

FairSpec == Spec /\ \A r \in Requests : WF_vars(Settles(r))

\* ------------------------------------------------------------------------
\* Vocabulary of the properties
\* ------------------------------------------------------------------------

Extracted == phase = "extracted"

Lines == split(rawText)

Medicines == result.medicines

\* w occurs in s as a substring
Occurs(w, s) ==
    \E i \in 1..(Len(s) - Len(w) + 1) : \A k \in 1..Len(w) : s[i + k - 1] = w[k]

OccursAny(ws, s) == \E w \in ws : Occurs(w, s)

HasDigit(s) == \E k \in DOMAIN s : s[k] \in Digits

\* t is s without its leading and trailing white space
IsTrimOf(t, s) ==
    \E a \in 0..Len(s) : \E b \in 0..(Len(s) - a) :
        /\ \A k \in 1..a : s[k] \in WhiteSpace
        /\ \A k \in (Len(s) - b + 1)..Len(s) : s[k] \in WhiteSpace
        /\ t = SubSeq(s, a + 1, Len(s) - b)
        /\ t # <<>> => t[1] \notin WhiteSpace /\ t[Len(t)] \notin WhiteSpace

\* w is one or more digits, at most one separator of seps, then a unit
IsToken(w, seps, units) ==
    \E n \in 1..Len(w) :
        /\ \A k \in 1..n : w[k] \in Digits
        /\ LET rest == SubSeq(w, n + 1, Len(w))
           IN  \/ toLowerCase(rest) \in units
               \/ /\ rest # <<>>
                  /\ rest[1] \in seps
                  /\ toLowerCase(Tail(rest)) \in units

\* <<first, last>> of every substring of s that is a token
TokenSpans(s, seps, units) ==
    {sp \in {i \in DOMAIN s : s[i] \in Digits} \X (DOMAIN s) :
        sp[1] <= sp[2] /\ IsToken(SubSeq(s, sp[1], sp[2]), seps, units)}

\* r is the leftmost token of s, or the sentinel exactly when s has no token
IsFirstTokenOr(r, s, seps, units, sentinel) ==
    LET spans == TokenSpans(s, seps, units)
    IN  IF spans = {} THEN r = sentinel
        ELSE /\ r # sentinel
             /\ \E sp \in spans :
                    /\ \A other \in spans : sp[1] <= other[1]
                    /\ r = SubSeq(s, sp[1], sp[2])

\* the acceptance rule of each revision
ServerKeywords == {kw_mg, kw_ml, kw_tab, kw_tablet, kw_capsule, kw_syrup}

OptimizedKeywords == {kw_mg, kw_ml, kw_tab, kw_cap, kw_bd, kw_td, kw_qd, kw_od}

Accepted(line) ==
    IF revision = "server"
    THEN OccursAny(ServerKeywords, toLowerCase(line))
    ELSE HasDigit(line) /\ OccursAny(OptimizedKeywords, toLowerCase(line))

AcceptedIdx == {k \in DOMAIN Lines : Accepted(Lines[k])}

\* the accepted lines, in line order
AcceptedLines == SelectSeq(Lines, Accepted)

RealEntries == IF Medicines = <<Placeholder>> THEN <<>> ELSE Medicines

EntriesMatchLines == Len(RealEntries) = Len(AcceptedLines)

\* <<entry, line>> for every accepted line: the k-th entry belongs to the k-th
\* accepted line
EntryPairs ==
    LET accepted == AcceptedLines
    IN  {<<Medicines[k], accepted[k]>> : k \in 1..Len(accepted)}

\* ------------------------------------------------------------------------
\* C1  line classifier
\* ------------------------------------------------------------------------

SpecKeywords == {kw_mg, kw_ml, kw_tab, kw_cap, kw_bd, kw_td, kw_qd, kw_od}

SpecSynonyms == {kw_tablet, kw_capsule, kw_syrup}

\* lines the stated policy accepts, with the keyword set ks
PolicyIdx(ks) ==
    {k \in DOMAIN Lines : HasDigit(Lines[k]) /\ OccursAny(ks, toLowerCase(Lines[k]))}

\* C1 as stated: a line becomes a medicine entry if and only if it has a
\* decimal digit and one of mg, ml, tab, cap, bd, td, qd, od (with or without
\* the synonyms tablet, capsule, syrup), so the entries are as many as such
\* lines.
C1_AsStated ==
    Extracted =>
        \/ Len(RealEntries) = Cardinality(PolicyIdx(SpecKeywords))
        \/ Len(RealEntries) = Cardinality(PolicyIdx(SpecKeywords \cup SpecSynonyms))

\* C1 amended: the optimized revision accepts a line if and only if it has a
\* decimal digit and one of mg, ml, tab, cap, bd, td, qd, od; the server.js
\* revision accepts a line if and only if it has one of mg, ml, tab, tablet,
\* capsule, syrup, whether or not it has a digit.  The entries are as many
\* as the lines the revision's rule accepts.
C1_Classifier ==
    Extracted =>
        /\ revision = "optimized" =>
              Len(RealEntries) = Cardinality(PolicyIdx(SpecKeywords))
        /\ revision = "server" =>
              Len(RealEntries) =
                  Cardinality({k \in DOMAIN Lines :
                                  OccursAny(ServerKeywords, toLowerCase(Lines[k]))})

\* server.js turned a line without a digit into an entry, and the optimized
\* revision refused a keyword line for want of a digit
C1_Witness ==
    /\ Extracted
    /\ Len(Lines) = 1
    /\ ~HasDigit(Lines[1])
    /\ OccursAny(ServerKeywords, toLowerCase(Lines[1]))
    /\ (revision = "server") = (Len(RealEntries) = 1)

\* ------------------------------------------------------------------------
\* C2  one entry per accepted line, in line order
\* ------------------------------------------------------------------------

\* the entry a revision builds from one line taken alone
EntryAlone(line) ==
    IF revision = "server" THEN medicineEntry(line) ELSE medicineEntryOpt(trim(line))

\* C2: when a line is accepted the medicines list has exactly one entry per
\* accepted line, the k-th entry is the one built from the k-th accepted line
\* alone, and nothing is dropped, duplicated, merged or reordered.
C2_OneEntryPerLine ==
    LET accepted == AcceptedLines
    IN  (Extracted /\ accepted # <<>>) =>
            /\ Len(Medicines) = Len(accepted)
            /\ \A k \in 1..Len(accepted) : Medicines[k] = EntryAlone(accepted[k])

\* two identical accepted lines, after a rejected one, gave two equal entries
C2_Witness ==
    /\ Extracted
    /\ Len(Lines) >= 3
    /\ 1 \notin AcceptedIdx
    /\ {2, 3} \subseteq AcceptedIdx
    /\ Lines[2] = Lines[3]
    /\ Len(Medicines) = 2
    /\ Medicines[1] = Medicines[2]

\* ------------------------------------------------------------------------
\* C3  placeholder entry
\* ------------------------------------------------------------------------

EntryFields == {"name", "dosage", "timing", "duration"}

\* C3: the medicines list is never empty; it is the single placeholder entry
\* with only a name exactly when no line was accepted, and otherwise holds
\* only four-field entries of accepted lines, never the placeholder.
C3_Placeholder ==
    LET accepted == AcceptedLines
    IN  Extracted =>
            /\ Medicines # <<>>
            /\ (Medicines = <<Placeholder>>) <=> (accepted = <<>>)
            /\ DOMAIN Placeholder = {"name"}
            /\ Medicines # <<Placeholder>> =>
                  \A n \in DOMAIN Medicines :
                      /\ DOMAIN Medicines[n] = EntryFields
                      /\ \E k \in 1..Len(accepted) : Medicines[n] = EntryAlone(accepted[k])

\* a text of several lines, none accepted, answered with the placeholder
C3_Witness ==
    /\ Extracted
    /\ Len(Lines) >= 2
    /\ \E k \in DOMAIN Lines : Lines[k] # <<>>
    /\ AcceptedIdx = {}
    /\ Medicines = <<Placeholder>>

\* ------------------------------------------------------------------------
\* C4  timing
\* ------------------------------------------------------------------------

\* first match of an ordered rule list <<keywords, label>>, else fallback
RECURSIVE FirstRule(_, _, _)
FirstRule(rules, lower, fallback) ==
    IF rules = <<>> THEN fallback
    ELSE IF OccursAny(Head(rules)[1], lower) THEN Head(rules)[2]
    ELSE FirstRule(Tail(rules), lower, fallback)

StatedTimingRules ==
    << <<{kw_bd, kw_twice}, TwiceDaily>>,
       <<{kw_tds, kw_td, kw_thrice}, ThreeTimesDaily>>,
       <<{kw_qd, kw_od, kw_once}, OnceDaily>> >>

ServerTimingRules ==
    << <<{kw_bd, kw_twice}, TwiceDaily>>,
       <<{kw_tds, kw_thrice}, ThreeTimesDaily>>,
       <<{kw_od, kw_once}, OnceDaily>> >>

OptimizedTimingRules ==
    << <<{kw_bd}, TwiceDaily>>,
       <<{kw_td}, ThreeTimesDaily>>,
       <<{kw_qd, kw_od}, OnceDaily>> >>

\* C4 as stated: timing by first match of bd|twice, then tds|td|thrice, then
\* qd|od|once, else "Follow doctor instructions".
C4_AsStated ==
    (Extracted /\ EntriesMatchLines) =>
        \A p \in EntryPairs :
            p[1].timing =
                FirstRule(StatedTimingRules, toLowerCase(p[2]), FollowDoctor)

\* C4 amended: timing is one of the four labels by first match; in server.js
\* the rules are bd|twice, then tds|thrice, then od|once (td without s and qd
\* are not keywords); in the optimized revision they are bd, then td, then
\* qd|od (twice, thrice, once are not keywords).  A line with bd and od gives
\* "Twice Daily" in both.
C4_Timing ==
    (Extracted /\ EntriesMatchLines) =>
        \A p \in EntryPairs :
            /\ p[1].timing \in {TwiceDaily, ThreeTimesDaily, OnceDaily, FollowDoctor}
            /\ p[1].timing =
                  FirstRule(IF revision = "server" THEN ServerTimingRules
                                                   ELSE OptimizedTimingRules,
                            toLowerCase(p[2]), FollowDoctor)
            /\ (Occurs(kw_bd, toLowerCase(p[2])) /\ Occurs(kw_od, toLowerCase(p[2])))
                  => p[1].timing = TwiceDaily

\* an accepted line with td and od: "Once Daily" in server.js, "Three Times
\* Daily" in the optimized revision
C4_Witness ==
    /\ Extracted
    /\ EntriesMatchLines
    /\ \E p \in EntryPairs :
          /\ Occurs(kw_td, toLowerCase(p[2]))
          /\ Occurs(kw_od, toLowerCase(p[2]))
          /\ ~Occurs(kw_tds, toLowerCase(p[2]))
          /\ ~Occurs(kw_bd, toLowerCase(p[2]))
          /\ p[1].timing = IF revision = "server" THEN OnceDaily ELSE ThreeTimesDaily

\* ------------------------------------------------------------------------
\* C5  medicine name
\* ------------------------------------------------------------------------

\* n is the line cut at the start of its first dosage token, trimmed; the
\* trimmed line when it has no token
IsTruncatedName(n, line) ==
    LET spans == TokenSpans(line, WhiteSpace, DoseUnits)
    IN  IF spans = {} THEN IsTrimOf(n, line)
        ELSE \E sp \in spans :
                /\ \A other \in spans : sp[1] <= other[1]
                /\ IsTrimOf(n, SubSeq(line, 1, sp[1] - 1))

\* n is the line without its first dosage token and what follows it up to the
\* next line terminator, trimmed
IsStrippedName(n, line) ==
    LET spans == TokenSpans(line, WhiteSpace, DoseUnits)
    IN  IF spans = {} THEN IsTrimOf(n, line)
        ELSE \E sp \in spans : \E e \in sp[2]..Len(line) :
                /\ \A other \in spans : sp[1] <= other[1]
                /\ \A k \in (sp[2] + 1)..e : line[k] \notin LineTerminators
                /\ e < Len(line) => line[e + 1] \in LineTerminators
                /\ IsTrimOf(n, SubSeq(line, 1, sp[1] - 1) \o SubSeq(line, e + 1, Len(line)))

\* C5 as stated: the name is the line truncated at its first dosage token and
\* trimmed.
C5_AsStated ==
    (Extracted /\ EntriesMatchLines) =>
        \A p \in EntryPairs : IsTruncatedName(p[1].name, p[2])

\* C5 amended: in server.js the name is the trimmed full line, dosage token
\* included; in the optimized revision it is the line without its first
\* dosage token and the rest of the line up to the next line terminator (a
\* carriage return), trimmed, which is the truncated line whenever the line
\* has no line terminator, and is empty for a line that is only a dosage
\* token.
C5_Name ==
    (Extracted /\ EntriesMatchLines) =>
        \A p \in EntryPairs :
            /\ revision = "server" => IsTrimOf(p[1].name, p[2])
            /\ revision = "optimized" =>
                  /\ IsStrippedName(p[1].name, p[2])
                  /\ (\A j \in DOMAIN p[2] : p[2][j] \notin LineTerminators)
                        => IsTruncatedName(p[1].name, p[2])
                  /\ IsToken(p[2], WhiteSpace, DoseUnits) => p[1].name = <<>>

\* the optimized revision cut a name off before the dosage token
C5_Witness ==
    /\ Extracted
    /\ EntriesMatchLines
    /\ revision = "optimized"
    /\ \E p \in EntryPairs :
          /\ TokenSpans(p[2], WhiteSpace, DoseUnits) # {}
          /\ p[1].name # <<>>
          /\ Len(p[1].name) < Len(p[2])
          /\ IsTruncatedName(p[1].name, p[2])

\* ------------------------------------------------------------------------
\* C6  duration
\* ------------------------------------------------------------------------

\* C6 as stated: the duration is the first "digits, optional whitespace,
\* days|weeks" of the line, the sentinel only without one.
C6_AsStated ==
    (Extracted /\ EntriesMatchLines) =>
        \A p \in EntryPairs :
            IsFirstTokenOr(p[1].duration, p[2], WhiteSpace, DurationUnits,
                           AsPrescribed)

\* C6 amended: in server.js the duration is the leftmost "digits, at most one
\* space character, days|weeks" of the line (any letter case), verbatim, and
\* "As prescribed" exactly when the line has none; in the optimized revision
\* it is always "As prescribed".
C6_Duration ==
    (Extracted /\ EntriesMatchLines) =>
        \A p \in EntryPairs :
            /\ revision = "server" =>
                  IsFirstTokenOr(p[1].duration, p[2], {" "}, DurationUnits,
                                 AsPrescribed)
            /\ revision = "optimized" => p[1].duration = AsPrescribed

\* server.js returned a duration token of an accepted line
C6_Witness ==
    /\ Extracted
    /\ EntriesMatchLines
    /\ revision = "server"
    /\ \E p \in EntryPairs :
          /\ TokenSpans(p[2], {" "}, DurationUnits) # {}
          /\ p[1].duration # AsPrescribed
          /\ IsToken(p[1].duration, {" "}, DurationUnits)

\* ------------------------------------------------------------------------
\* C7  dosage
\* ------------------------------------------------------------------------

\* C7 as stated: the dosage is the leftmost "digits, optional whitespace,
\* mg|ml" of the line, the sentinel exactly without one.
C7_AsStated ==
    (Extracted /\ EntriesMatchLines) =>
        \A p \in EntryPairs :
            IsFirstTokenOr(p[1].dosage, p[2], WhiteSpace, DoseUnits,
                           NotSpecified)

\* C7 amended: the dosage is the leftmost "digits, at most one separator,
\* mg|ml" of the line (any letter case), verbatim, and "Not specified"
\* exactly when the line has none, where the separator is a space character
\* in server.js and any whitespace character in the optimized revision.
C7_Dosage ==
    (Extracted /\ EntriesMatchLines) =>
        \A p \in EntryPairs :
            IsFirstTokenOr(p[1].dosage, p[2],
                           IF revision = "server" THEN {" "} ELSE WhiteSpace,
                           DoseUnits, NotSpecified)

\* a line with two dosage tokens gave the first one
C7_Witness ==
    /\ Extracted
    /\ EntriesMatchLines
    /\ \E p \in EntryPairs :
          /\ \E a, b \in TokenSpans(p[2], {" "}, DoseUnits) :
                /\ a[2] < b[1]
                /\ p[1].dosage = SubSeq(p[2], a[1], a[2])
                /\ p[1].dosage # SubSeq(p[2], b[1], b[2])

\* ------------------------------------------------------------------------
\* C8  doctor
\* ------------------------------------------------------------------------

DoctorIdx == {k \in DOMAIN Lines : Occurs(kw_dr, toLowerCase(Lines[k]))}

\* C8: the doctor is the trimmed first line whose lowercase contains "dr",
\* whatever follows it and whether or not it is a medicine line, and is
\* "Doctor name not detected" exactly when no line contains "dr".
C8_Doctor ==
    Extracted =>
        /\ (result.doctor = DoctorNotDetected) <=> (DoctorIdx = {})
        /\ DoctorIdx # {} =>
              \E k \in DoctorIdx :
                  /\ \A j \in DoctorIdx : k <= j
                  /\ IsTrimOf(result.doctor, Lines[k])

\* two lines contain "dr": the first one, a medicine line with white space
\* around it, was returned trimmed
C8_Witness ==
    /\ Extracted
    /\ Cardinality(DoctorIdx) >= 2
    /\ \E k \in DoctorIdx \cap AcceptedIdx :
          /\ \A j \in DoctorIdx : k <= j
          /\ \E j \in DoctorIdx : Lines[j] # Lines[k]
          /\ Lines[k][1] \in WhiteSpace
          /\ result.doctor = SubSeq(Lines[k], 2, Len(Lines[k]))

\* ------------------------------------------------------------------------
\* C9  totality
\* ------------------------------------------------------------------------

\* a JavaScript string of the model
IsString(s) == DOMAIN s = 1..Len(s)

Answered(r) == responses[r] # <<>> /\ responses[r][Len(responses[r])].status = 200

BodyOf(r) == responses[r][Len(responses[r])].body

BodyAlone(text) ==
    IF revision = "server" THEN responseBody(text) ELSE responseBodyOpt(text)

\* every answered request has the result of its own text, and requests with
\* the same text have the same result
OwnTextOnly ==
    \A r \in Requests :
        Answered(r) =>
            /\ [medicines |-> BodyOf(r).medicines, doctor |-> BodyOf(r).doctor]
                  = [medicines |-> BodyAlone(extractedText[r]).medicines,
                     doctor    |-> BodyAlone(extractedText[r]).doctor]
            /\ \A q \in Requests :
                  (Answered(q) /\ extractedText[q] = extractedText[r])
                      => /\ BodyOf(q).medicines = BodyOf(r).medicines
                         /\ BodyOf(q).doctor = BodyOf(r).doctor

\* a step belongs to one request and leaves what the others hold as it was
OwnStateOnly ==
    \E r \in Requests :
        /\ \A q \in Requests \ {r} :
              /\ pc'[q] = pc[q]
              /\ worker'[q] = worker[q]
              /\ extractedText'[q] = extractedText[q]
              /\ responses'[q] = responses[q]
        /\ \A id \in DOMAIN workers : workers'[id] # workers[id] => id = worker[r]
        /\ Len(responses'[r]) >= Len(responses[r])
        /\ SubSeq(responses'[r], 1, Len(responses[r])) = responses[r]

C11_RawTextPassedThrough ==
    \A r \in Requests :
        Answered(r) =>
            /\ Len(BodyOf(r).rawText) = Len(extractedText[r])
            /\ \A k \in 1..Len(extractedText[r]) :
                  BodyOf(r).rawText[k] = extractedText[r][k]

\* server.js answered a text that starts with a space and ends with a line
\* break, and the response holds both
C11_Witness ==
    \E r \in Requests :
        /\ revision = "server"
        /\ Answered(r)
        /\ Len(extractedText[r]) >= 3
        /\ extractedText[r][1] = " "
        /\ extractedText[r][Len(extractedText[r])] = "\n"
        /\ BodyOf(r).rawText[1] = " "
        /\ BodyOf(r).rawText[Len(BodyOf(r).rawText)] = "\n"
        /\ Len(split(BodyOf(r).rawText)) = 2

\* ------------------------------------------------------------------------
\* C12  worker lifecycle in server.js
\* ------------------------------------------------------------------------

\* the requests that called terminate() on worker id, one per call
TerminateCalls(id) == workers[id].terminatedBy

\* request r has left the handler
Finished(r) == pc[r] = "done"

\* every worker is used and terminated by the request that created it only,
\* never twice, and once by the time that request's handler has finished; a
\* request that holds no worker never awaits a terminate
WorkersOwned ==
    /\ \A id \in DOMAIN workers :
          /\ workers[id].usedBy = {workers[id].createdBy}
          /\ Len(TerminateCalls(id)) <= 1
          /\ \A k \in 1..Len(TerminateCalls(id)) :
                TerminateCalls(id)[k] = workers[id].createdBy
          /\ Finished(workers[id].createdBy) => Len(TerminateCalls(id)) = 1
          /\ Len(TerminateCalls(id)) = 1 => Len(responses[workers[id].createdBy]) = 1
    /\ \A r \in Requests :
          /\ (\A id \in DOMAIN workers : workers[id].createdBy # r) =>
                /\ pc[r] # "terminate"
                /\ \A id \in DOMAIN workers :
                      \A k \in 1..Len(TerminateCalls(id)) : TerminateCalls(id)[k] # r
          /\ Cardinality({id \in DOMAIN workers : workers[id].createdBy = r}) <= 1

\* C12: in server.js a worker that was created is terminated exactly once,
\* by the request that created it, before that request's handler finishes,
\* whatever response the request got; a request with no file or whose
\* createWorker failed terminates nothing; no request uses or terminates the
\* worker of another; and every request that created a worker does finish.
C12_WorkerLifecycle ==
    /\ []WorkersOwned
    /\ \A r \in Requests : (pc[r] = "recognize" /\ revision = "server") ~> Finished(r)

\* two workers created in the order 2, 1: request 1 got the 400 for
\* whitespace-only text, request 2 the 500 after recognize threw, and each
\* worker was terminated once by its own request
C12_Witness ==
    /\ revision = "server"
    /\ Len(workers) = 2
    /\ workers[1].createdBy = 2 /\ workers[2].createdBy = 1
    /\ ocr[1] = "recognized" /\ responses[1][1].status = 400
    /\ ocr[2] = "recognizeThrew" /\ responses[2][1].status = 500
    /\ TerminateCalls(1) = <<2>> /\ TerminateCalls(2) = <<1>>
    /\ Finished(1) /\ Finished(2)

\* ------------------------------------------------------------------------
\* C13  exactly one response per request in server.js
\* ------------------------------------------------------------------------

\* text is empty or holds white space only
Blank(text) == \A k \in 1..Len(text) : text[k] \in WhiteSpace

\* request r has left the try block of the handler
Responded(r) == pc[r] \in {"terminate", "done"}

\* the response server.js owes request r, by what happened to the request
ChosenResponse(r) ==
    /\ file[r] = "absent" =>
          /\ responses[r] = <<[status |-> 400, error |-> "Prescription image required"]>>
          /\ ocr[r] = "none"
          /\ \A id \in DOMAIN workers : workers[id].createdBy # r
          /\ extractedText[r] = <<>>
    /\ ocr[r] \in {"createWorkerThrew", "recognizeThrew"} =>
          responses[r] =
              <<[status |-> 500, error |-> "OCR failed (memory limit or unclear image)"]>>
    /\ ocr[r] = "recognized" /\ Blank(extractedText[r]) =>
          responses[r] =
              <<[status |-> 400, error |-> "Could not read prescription text clearly"]>>
    /\ ocr[r] = "recognized" /\ ~Blank(extractedText[r]) =>
          /\ Len(responses[r]) = 1
          /\ DOMAIN responses[r][1] = {"status", "body"}
          /\ responses[r][1].status = 200
          /\ DOMAIN responses[r][1].body = {"rawText", "medicines", "doctor"}

\* never two responses, one response exactly once the try block is left, and
\* in server.js the response the request's case calls for
OneResponse ==
    \A r \in Requests :
        /\ Len(responses[r]) <= 1
        /\ Responded(r) <=> Len(responses[r]) = 1
        /\ Responded(r) =>
              \/ file[r] = "absent"
              \/ file[r] = "present" /\ ocr[r] # "none"
        /\ revision = "server" => ChosenResponse(r)

\* C13: every request of server.js gets exactly one response: 400
\* "Prescription image required" without a file, OCR not started; 500 when
\* createWorker or recognize throws; 400 "Could not read prescription text
\* clearly" for empty or white-space-only text, with no extraction result;
\* otherwise 200 with rawText, medicines and doctor. No request gets two
\* responses, and every request that arrived gets one.
C13_ExactlyOneResponse ==
    /\ []OneResponse
    /\ \A r \in Requests : (file[r] # "pending") ~> (Len(responses[r]) = 1)

\* request 1 came without a file and request 2 was recognized as white space
\* only: both have their one 400 response and have finished
C13_Witness ==
    /\ revision = "server"
    /\ file[1] = "absent" /\ file[2] = "present"
    /\ ocr[2] = "recognized"
    /\ extractedText[2] = <<" ", "\n">>
    /\ Len(responses[1]) = 1 /\ responses[1][1].status = 400
    /\ Len(responses[2]) = 1 /\ responses[2][1].status = 400
    /\ responses[1][1].error # responses[2][1].error
    /\ Finished(1) /\ Finished(2)

====
